---- MODULE Spec2Model ----
(***************************************************************************)
(* AWS-Security-report-script.py: a sequential pipeline that resolves the  *)
(* account, enumerates EC2 instances, lists AWS Backup protected           *)
(* resources, lists CloudWatch alarms, queries Inspector findings per      *)
(* instance, joins everything by instance ID and writes one CSV file.      *)
(*                                                                         *)
(* Python strings that the script takes apart (instance IDs, resource      *)
(* ARNs, alarm names) are sequences of one-character strings, so that      *)
(* str.split, str.lower and the `in` substring test are computed.  Strings *)
(* that are only compared for equality or copied (tag keys and values,     *)
(* dimension names, resource types, severities, state values) are TLA+     *)
(* strings.  Timestamps are whole days.                                    *)
(***************************************************************************)
EXTENDS Integers, Sequences, FiniteSets, TLC

VARIABLES
    ec2Pages,       \* what describe_instances returns: pages of reservations of instances
    backupPages,    \* what list_protected_resources returns: pages of entries
    alarmPages,     \* what describe_alarms returns: pages of metric alarms
    findingPages,   \* what list_findings returns for a resourceId filter: id -> pages of findings
    pc,             \* the statement the script is at
    error,          \* the exception that ended the run, "none" while it runs
    fetched,        \* pages fetched so far by each paginator
    instIdx,        \* position of the findings loop in instances.keys()
    ACCOUNT_ID,
    instances,
    protected_instances,
    alarm_map,
    alarm_triggered_last_week,
    cve_data,
    rows,
    csv             \* weekly_ec2_security_report.csv as written by this run

world == <<ec2Pages, backupPages, alarmPages, findingPages>>
vars == <<ec2Pages, backupPages, alarmPages, findingPages, pc, error, fetched,
          instIdx, ACCOUNT_ID, instances, protected_instances, alarm_map,
          alarm_triggered_last_week, cve_data, rows, csv>>

(***************************************************************************)
(* Bounds and program constants                                            *)
(***************************************************************************)
MaxPages == 2       \* pages a paginated listing has at most

RunStart == 20      \* datetime.now(timezone.utc) at start-up, in days
WindowDays == 7     \* timedelta(days=7)
LAST_7_DAYS == RunStart - WindowDays

None == <<"<None>">>    \* Python's None, distinct from every string

(***************************************************************************)
(* Python built-ins on strings, lists and dicts                            *)
(***************************************************************************)
Range(s) == {s[i] : i \in 1..Len(s)}

UpperCase == <<"A", "B", "C", "D", "E", "F", "G", "H", "I", "J", "K", "L", "M",
               "N", "O", "P", "Q", "R", "S", "T", "U", "V", "W", "X", "Y", "Z">>
LowerCase == <<"a", "b", "c", "d", "e", "f", "g", "h", "i", "j", "k", "l", "m",
               "n", "o", "p", "q", "r", "s", "t", "u", "v", "w", "x", "y", "z">>

LowerChar(c) ==
    IF \E i \in 1..Len(UpperCase) : UpperCase[i] = c
    THEN LowerCase[CHOOSE i \in 1..Len(UpperCase) : UpperCase[i] = c]
    ELSE c

\* str.lower()
lower(s) == [i \in 1..Len(s) |-> LowerChar(s[i])]

\* `sub in s` on strings
contains(sub, s) ==
    \E i \in 0..(Len(s) - Len(sub)) : SubSeq(s, i + 1, i + Len(sub)) = sub

\* s.split(sep) for a one-character separator: the list of segments, scanned
\* left to right; cur is the segment being collected.
RECURSIVE SplitFrom(_, _, _, _, _)
SplitFrom(s, sep, i, cur, acc) ==
    IF i > Len(s) THEN Append(acc, cur)
    ELSE IF s[i] = sep THEN SplitFrom(s, sep, i + 1, <<>>, Append(acc, cur))
    ELSE SplitFrom(s, sep, i + 1, Append(cur, s[i]), acc)

split(s, sep) == SplitFrom(s, sep, 1, <<>>, <<>>)

\* lst[-1]
LastOf(lst) == lst[Len(lst)]

\* `not x` for a value that is None or a string
Falsy(x) == x = None \/ x = <<>>

\* A dict keeps its keys in insertion order; assigning to an existing key
\* replaces the value and leaves the key where it is.
EmptyDict == [keys |-> <<>>, val |-> <<>>]

\* Faulty variant: re-assignment moves the key to the end.
DictSetMoveToEnd(d, k, v) ==
    [keys |-> Append(SelectSeq(d.keys, LAMBDA x : x # k), k),
     val  |-> (k :> v) @@ d.val]

DictSet(d, k, v) ==
    [keys |-> IF k \in Range(d.keys) THEN d.keys ELSE Append(d.keys, k),
     val  |-> (k :> v) @@ d.val]

\* d.get(k, dflt) and the read of a defaultdict
Get(d, k, dflt) == IF k \in DOMAIN d THEN d[k] ELSE dflt

(***************************************************************************)
(* Stage 2: EC2 instances (ID + name)                                      *)
(***************************************************************************)
\* Faulty variant: the tag loop without its break, the last "Name" tag wins.
RECURSIVE ScanNameTagLast(_, _)
ScanNameTagLast(tags, i) ==
    IF i > Len(tags) THEN "N/A"
    ELSE LET rest == ScanNameTagLast(tags, i + 1)
         IN  IF tags[i].Key = "Name" /\ rest = "N/A" THEN tags[i].Value ELSE rest

\* The tag loop with its break: the first tag whose key is "Name".
RECURSIVE ScanNameTag(_, _)
ScanNameTag(tags, i) ==
    IF i > Len(tags) THEN "N/A"
    ELSE IF tags[i].Key = "Name" THEN tags[i].Value
    ELSE ScanNameTag(tags, i + 1)

\* inst.get("Tags", [])
TagsOf(inst) == IF "Tags" \in DOMAIN inst THEN inst.Tags ELSE <<>>

ResolveName(inst) == ScanNameTag(TagsOf(inst), 1)

AddInstance(insts, inst) ==
    DictSet(insts, inst.InstanceId,
            [InstanceId |-> inst.InstanceId, InstanceName |-> ResolveName(inst)])

RECURSIVE AddReservation(_, _, _)
AddReservation(insts, reservation, i) ==
    IF i > Len(reservation.Instances) THEN insts
    ELSE AddReservation(AddInstance(insts, reservation.Instances[i]), reservation, i + 1)

RECURSIVE AddInstancesPage(_, _, _)
AddInstancesPage(insts, page, r) ==
    IF r > Len(page.Reservations) THEN insts
    ELSE AddInstancesPage(AddReservation(insts, page.Reservations[r], 1), page, r + 1)

(***************************************************************************)
(* Stage 3: AWS Backup protected resources                                 *)
(***************************************************************************)
\* Faulty variant: the resource type is not looked at.
IsInstanceEntryAnyType(r) == TRUE

IsInstanceEntry(r) == r.ResourceType = "EC2"

ArnInstanceId(arn) == LastOf(split(arn, "/"))

AddProtected(protected, r) ==
    IF IsInstanceEntry(r) THEN protected \cup {ArnInstanceId(r.ResourceArn)}
    ELSE protected

RECURSIVE AddProtectedPage(_, _, _)
AddProtectedPage(protected, page, i) ==
    IF i > Len(page.Results) THEN protected
    ELSE AddProtectedPage(AddProtected(protected, page.Results[i]), page, i + 1)

(***************************************************************************)
(* Stage 4: CloudWatch alarms                                              *)
(***************************************************************************)
\* alarm.get("Dimensions", [])
DimensionsOf(alarm) == IF "Dimensions" \in DOMAIN alarm THEN alarm.Dimensions ELSE <<>>

\* The dimension loop (no break): the value of the last "InstanceId" dimension.
RECURSIVE ScanDimensions(_, _, _)
ScanDimensions(dims, i, instance_id) ==
    IF i > Len(dims) THEN instance_id
    ELSE ScanDimensions(dims, i + 1,
                        IF dims[i].Name = "InstanceId" THEN dims[i].Value
                        ELSE instance_id)

AlarmInstanceId(alarm) == ScanDimensions(DimensionsOf(alarm), 1, None)

\* Faulty variant: the transition time is not looked at.
FiredAnyTime(alarm) == alarm.StateValue = "ALARM"

\* The test of lines 82-85.
FiredInWindow(alarm) ==
    /\ alarm.StateValue = "ALARM"
    /\ alarm.StateUpdatedTimestamp >= LAST_7_DAYS

\* Faulty variant: the name is stored as listed.
StoredNameAsListed(alarm) == alarm.AlarmName

\* The name as stored in alarm_map.
StoredName(alarm) == lower(alarm.AlarmName)

AlarmMapAdd(map, alarm) ==
    LET instance_id == AlarmInstanceId(alarm)
    IN  IF Falsy(instance_id) THEN map
        ELSE (instance_id :> Append(Get(map, instance_id, <<>>), StoredName(alarm))) @@ map

TriggeredAdd(triggered, alarm) ==
    LET instance_id == AlarmInstanceId(alarm)
    IN  IF Falsy(instance_id) THEN triggered
        ELSE IF FiredInWindow(alarm) THEN (instance_id :> TRUE) @@ triggered
        ELSE triggered

RECURSIVE AlarmMapPage(_, _, _)
AlarmMapPage(map, page, i) ==
    IF i > Len(page.MetricAlarms) THEN map
    ELSE AlarmMapPage(AlarmMapAdd(map, page.MetricAlarms[i]), page, i + 1)

RECURSIVE TriggeredPage(_, _, _)
TriggeredPage(triggered, page, i) ==
    IF i > Len(page.MetricAlarms) THEN triggered
    ELSE TriggeredPage(TriggeredAdd(triggered, page.MetricAlarms[i]), page, i + 1)

(***************************************************************************)
(* Stage 5: Inspector findings                                             *)
(***************************************************************************)
\* The default of the cve_data defaultdict.
ZeroTally == [Critical |-> 0, High |-> 0, All |-> 0]

\* Faulty variant: only CRITICAL and HIGH findings are counted in All.
TallyAddRatedOnly(tally, severity) ==
    [All      |-> IF severity \in {"CRITICAL", "HIGH"} THEN tally.All + 1 ELSE tally.All,
     Critical |-> IF severity = "CRITICAL" THEN tally.Critical + 1 ELSE tally.Critical,
     High     |-> IF severity = "HIGH" THEN tally.High + 1 ELSE tally.High]

TallyAdd(tally, severity) ==
    [All      |-> tally.All + 1,
     Critical |-> IF severity = "CRITICAL" THEN tally.Critical + 1 ELSE tally.Critical,
     High     |-> IF severity # "CRITICAL" /\ severity = "HIGH"
                  THEN tally.High + 1 ELSE tally.High]

AddFinding(cve, instance_id, finding) ==
    (instance_id :> TallyAdd(Get(cve, instance_id, ZeroTally), finding.severity)) @@ cve

RECURSIVE AddFindingsPage(_, _, _, _)
AddFindingsPage(cve, instance_id, page, i) ==
    IF i > Len(page.findings) THEN cve
    ELSE AddFindingsPage(AddFinding(cve, instance_id, page.findings[i]),
                         instance_id, page, i + 1)

(***************************************************************************)
(* Stage 6: final report                                                   *)
(***************************************************************************)
Columns == <<"AccountId", "InstanceId", "InstanceName", "BackupEnabled",
             "MonitoringEnabled", "StateAlarm", "CPUAlarm", "MemoryAlarm",
             "DiskAlarm", "MonitoringAlertLastWeek", "CVE_Critical", "CVE_High",
             "CVE_All">>

KwState      == <<"s", "t", "a", "t", "e">>
KwStatus     == <<"s", "t", "a", "t", "u", "s">>
KwCpu        == <<"c", "p", "u">>
KwMemory     == <<"m", "e", "m", "o", "r", "y">>
KwDisk       == <<"d", "i", "s", "k">>
KwFilesystem == <<"f", "i", "l", "e", "s", "y", "s", "t", "e", "m">>

YesNo(b) == IF b THEN "Yes" ELSE "No"

\* any(kw in a for a in alarms), for one of the keywords
AnyNameHas(alarms, keywords) ==
    \E k \in 1..Len(alarms) : \E kw \in keywords : contains(kw, alarms[k])

\* Faulty variant: only alarms of a known category count as monitoring.
HasAlarmsOfKnownCategory(alarms) ==
    AnyNameHas(alarms, {KwState, KwStatus, KwCpu, KwMemory, KwDisk, KwFilesystem})

\* `if alarms`: a list is true when it is not empty
HasAlarms(alarms) == alarms # <<>>

\* Faulty variant: a missing key counts as triggered.
TriggeredUnlessKnownNot(instance_id) ==
    Get(alarm_triggered_last_week, instance_id, TRUE)

\* alarm_triggered_last_week.get(instance_id): True, or None, which is false
Triggered(instance_id) ==
    Get(alarm_triggered_last_week, instance_id, FALSE)

BuildRow(instance_id, inst) ==
    LET alarms == Get(alarm_map, instance_id, <<>>)
        tally  == Get(cve_data, instance_id, ZeroTally)
    IN  [AccountId               |-> ACCOUNT_ID,
         InstanceId              |-> instance_id,
         InstanceName            |-> inst.InstanceName,
         BackupEnabled           |-> YesNo(instance_id \in protected_instances),
         MonitoringEnabled       |-> YesNo(HasAlarms(alarms)),
         StateAlarm              |-> YesNo(AnyNameHas(alarms, {KwState, KwStatus})),
         CPUAlarm                |-> YesNo(AnyNameHas(alarms, {KwCpu})),
         MemoryAlarm             |-> YesNo(AnyNameHas(alarms, {KwMemory})),
         DiskAlarm               |-> YesNo(AnyNameHas(alarms, {KwDisk, KwFilesystem})),
         MonitoringAlertLastWeek |-> YesNo(Triggered(instance_id)),
         CVE_Critical            |-> tally.Critical,
         CVE_High                |-> tally.High,
         CVE_All                 |-> tally.All]

BuildRows == [i \in 1..Len(instances.keys) |->
                 BuildRow(instances.keys[i], instances.val[instances.keys[i]])]

(***************************************************************************)
(* The run: one action per API call (a page fetch and the loop body run    *)
(* over that page) and per straight-line block.  Every API call may raise; *)
(* nothing catches, so the exception ends the run.                         *)
(***************************************************************************)
Abort(exc) ==
    /\ pc' = "aborted"
    /\ error' = exc

Bump(stage) == [fetched EXCEPT ![stage] = @ + 1]

\* line 20
GetCallerIdentity ==
    /\ pc = "get_caller_identity"
    /\ ACCOUNT_ID' = "123456789012"
    /\ fetched' = Bump("identity")
    /\ pc' = "describe_instances"
    /\ UNCHANGED <<world, error, instIdx, instances, protected_instances, alarm_map,
                   alarm_triggered_last_week, cve_data, rows, csv>>

GetCallerIdentityFails ==
    /\ pc = "get_caller_identity"
    /\ Abort("ClientError")
    /\ UNCHANGED <<world, fetched, instIdx, ACCOUNT_ID, instances, protected_instances,
                   alarm_map, alarm_triggered_last_week, cve_data, rows, csv>>

\* lines 27-42: the next page of describe_instances and the loops over it
DescribeInstancesPage ==
    /\ pc = "describe_instances"
    /\ fetched.ec2 < Len(ec2Pages)
    /\ instances' = AddInstancesPage(instances, ec2Pages[fetched.ec2 + 1], 1)
    /\ fetched' = Bump("ec2")
    /\ pc' = IF fetched.ec2 + 1 = Len(ec2Pages) THEN "check_instances" ELSE pc
    /\ UNCHANGED <<world, error, instIdx, ACCOUNT_ID, protected_instances, alarm_map,
                   alarm_triggered_last_week, cve_data, rows, csv>>

DescribeInstancesFails ==
    /\ pc = "describe_instances"
    /\ fetched.ec2 < Len(ec2Pages)
    /\ Abort("ClientError")
    /\ UNCHANGED <<world, fetched, instIdx, ACCOUNT_ID, instances, protected_instances,
                   alarm_map, alarm_triggered_last_week, cve_data, rows, csv>>

\* Faulty variant: no empty-instances guard.
CheckInstancesNever ==
    /\ pc = "check_instances"
    /\ pc' = "list_protected_resources"
    /\ UNCHANGED <<world, error, fetched, instIdx, ACCOUNT_ID, instances,
                   protected_instances, alarm_map, alarm_triggered_last_week, cve_data,
                   rows, csv>>

\* lines 44-47
CheckInstances ==
    /\ pc = "check_instances"
    /\ IF instances.keys = <<>>
       THEN Abort("RuntimeError")
       ELSE pc' = "list_protected_resources" /\ error' = error
    /\ UNCHANGED <<world, fetched, instIdx, ACCOUNT_ID, instances, protected_instances,
                   alarm_map, alarm_triggered_last_week, cve_data, rows, csv>>

\* lines 52-59
ListProtectedResourcesPage ==
    /\ pc = "list_protected_resources"
    /\ fetched.backup < Len(backupPages)
    /\ protected_instances' =
           AddProtectedPage(protected_instances, backupPages[fetched.backup + 1], 1)
    /\ fetched' = Bump("backup")
    /\ pc' = IF fetched.backup + 1 = Len(backupPages) THEN "describe_alarms" ELSE pc
    /\ UNCHANGED <<world, error, instIdx, ACCOUNT_ID, instances, alarm_map,
                   alarm_triggered_last_week, cve_data, rows, csv>>

ListProtectedResourcesFails ==
    /\ pc = "list_protected_resources"
    /\ fetched.backup < Len(backupPages)
    /\ Abort("ClientError")
    /\ UNCHANGED <<world, fetched, instIdx, ACCOUNT_ID, instances, protected_instances,
                   alarm_map, alarm_triggered_last_week, cve_data, rows, csv>>

\* lines 64-86
DescribeAlarmsPage ==
    /\ pc = "describe_alarms"
    /\ fetched.alarms < Len(alarmPages)
    /\ alarm_map' = AlarmMapPage(alarm_map, alarmPages[fetched.alarms + 1], 1)
    /\ alarm_triggered_last_week' =
           TriggeredPage(alarm_triggered_last_week, alarmPages[fetched.alarms + 1], 1)
    /\ fetched' = Bump("alarms")
    /\ pc' = IF fetched.alarms + 1 = Len(alarmPages) THEN "list_findings" ELSE pc
    /\ UNCHANGED <<world, error, instIdx, ACCOUNT_ID, instances, protected_instances,
                   cve_data, rows, csv>>

\* Faulty variant: an error of describe_alarms is swallowed, the stage ends early.
DescribeAlarmsFailsSkipped ==
    /\ pc = "describe_alarms"
    /\ fetched.alarms < Len(alarmPages)
    /\ pc' = "list_findings"
    /\ UNCHANGED <<world, error, fetched, instIdx, ACCOUNT_ID, instances,
                   protected_instances, alarm_map, alarm_triggered_last_week, cve_data,
                   rows, csv>>

DescribeAlarmsFails ==
    /\ pc = "describe_alarms"
    /\ fetched.alarms < Len(alarmPages)
    /\ Abort("ClientError")
    /\ UNCHANGED <<world, fetched, instIdx, ACCOUNT_ID, instances, protected_instances,
                   alarm_map, alarm_triggered_last_week, cve_data, rows, csv>>

\* lines 93-119: the next page of list_findings for the instance the loop is
\* at; after the instance's last page the loop moves to the next key.
CurrentInstance == instances.keys[instIdx]

ListFindingsPage ==
    /\ pc = "list_findings"
    /\ LET instance_id == CurrentInstance
           n == Get(fetched.findings, instance_id, 0)
           last == n + 1 = Len(findingPages[instance_id])
       IN  /\ n < Len(findingPages[instance_id])
           /\ cve_data' = AddFindingsPage(cve_data, instance_id,
                                          findingPages[instance_id][n + 1], 1)
           /\ fetched' = [fetched EXCEPT !.findings = (instance_id :> (n + 1)) @@ @]
           /\ instIdx' = IF last THEN instIdx + 1 ELSE instIdx
           /\ pc' = IF last /\ instIdx = Len(instances.keys) THEN "build_rows" ELSE pc
    /\ UNCHANGED <<world, error, ACCOUNT_ID, instances, protected_instances, alarm_map,
                   alarm_triggered_last_week, rows, csv>>

ListFindingsFails ==
    /\ pc = "list_findings"
    /\ Get(fetched.findings, CurrentInstance, 0) < Len(findingPages[CurrentInstance])
    /\ Abort("ClientError")
    /\ UNCHANGED <<world, fetched, instIdx, ACCOUNT_ID, instances, protected_instances,
                   alarm_map, alarm_triggered_last_week, cve_data, rows, csv>>

\* lines 124-145; reading cve_data[instance_id] creates the default entry
AssembleRows ==
    /\ pc = "build_rows"
    /\ rows' = BuildRows
    /\ cve_data' = [id \in DOMAIN cve_data \cup Range(instances.keys) |->
                       Get(cve_data, id, ZeroTally)]
    /\ pc' = "to_csv"
    /\ UNCHANGED <<world, error, fetched, instIdx, ACCOUNT_ID, instances,
                   protected_instances, alarm_map, alarm_triggered_last_week, csv>>

\* lines 147-150
WriteCsv ==
    /\ pc = "to_csv"
    /\ csv' = [written |-> TRUE, header |-> Columns, rows |-> rows]
    /\ pc' = "done"
    /\ UNCHANGED <<world, error, fetched, instIdx, ACCOUNT_ID, instances,
                   protected_instances, alarm_map, alarm_triggered_last_week, cve_data,
                   rows>>

Next ==
    \/ GetCallerIdentity
    \/ GetCallerIdentityFails
    \/ DescribeInstancesPage
    \/ DescribeInstancesFails
    \/ CheckInstances
    \/ ListProtectedResourcesPage
    \/ ListProtectedResourcesFails
    \/ DescribeAlarmsPage
    \/ DescribeAlarmsFails
    \/ ListFindingsPage
    \/ ListFindingsFails
    \/ AssembleRows
    \/ WriteCsv

\* The state at line 1, before any call.
Start ==
    /\ pc = "get_caller_identity"
    /\ error = "none"
    /\ fetched = [identity |-> 0, ec2 |-> 0, backup |-> 0, alarms |-> 0, findings |-> <<>>]
    /\ instIdx = 1
    /\ ACCOUNT_ID = "unbound"
    /\ instances = EmptyDict
    /\ protected_instances = {}
    /\ alarm_map = <<>>
    /\ alarm_triggered_last_week = <<>>
    /\ cve_data = <<>>
    /\ rows = <<>>
    /\ csv = [written |-> FALSE, header |-> <<>>, rows |-> <<>>]

(***************************************************************************)
(* The account the script runs against: what the four services return.     *)
(***************************************************************************)
I1 == <<"i", "-", "1">>
I2 == <<"i", "-", "2">>
I3 == <<"i", "-", "3">>     \* an instance ID describe_instances never returns

EnumerableIds == {I1, I2}

\* The listings of 1..MaxPages pages drawn from a set of pages.
Listings(pageSet) == UNION {[1..n -> pageSet] : n \in 1..MaxPages}

Tag(k, v) == [Key |-> k, Value |-> v]

TagLists ==
    { <<>>,
      <<Tag("Name", "web-1")>>,
      <<Tag("name", "lower")>>,
      <<Tag("env", "prod"), Tag("Name", "db-1"), Tag("Name", "db-2")>> }

InstanceDescriptions ==
    {[InstanceId |-> id] : id \in EnumerableIds}
    \cup {[InstanceId |-> id, Tags |-> t] : id \in EnumerableIds, t \in TagLists}

Ec2Page(reservations) == [Reservations |-> reservations]
Reservation(insts) == [Instances |-> insts]

EmptyEc2Page == Ec2Page(<<>>)

Ec2PageSet ==
    {EmptyEc2Page}
    \cup {Ec2Page(<<Reservation(<<d>>)>>) : d \in InstanceDescriptions}
    \cup {Ec2Page(<<Reservation(<<[InstanceId |-> I2],
                                  [InstanceId |-> I1, Tags |-> <<Tag("Name", "web-1")>>]>>),
                    Reservation(<<[InstanceId |-> I2, Tags |-> <<Tag("Name", "late")>>]>>)>>)}

StdEc2 ==
    <<Ec2Page(<<Reservation(<<[InstanceId |-> I1, Tags |-> <<Tag("Name", "web-1")>>]>>)>>),
      Ec2Page(<<Reservation(<<[InstanceId |-> I2]>>)>>)>>

EmptyEc2 == <<EmptyEc2Page>>

ArnI1       == <<"a", "r", "n", ":", "e", "c", "2", ":", "i", "n", "s", "t", "a", "n", "c", "e", "/", "i", "-", "1">>
ArnI2       == <<"a", "r", "n", ":", "a", "w", "s", "/", "e", "c", "2", "/", "i", "-", "2">>
ArnI3       == <<"a", "r", "n", ":", "e", "c", "2", ":", "i", "n", "s", "t", "a", "n", "c", "e", "/", "i", "-", "3">>
ArnTrailing == <<"a", "r", "n", ":", "e", "c", "2", ":", "i", "n", "s", "t", "a", "n", "c", "e", "/", "i", "-", "1", "/">>
ArnVolume   == <<"a", "r", "n", ":", "e", "c", "2", ":", "v", "o", "l", "u", "m", "e", "/", "v", "o", "l", "-", "1">>

Entry(type, arn) == [ResourceType |-> type, ResourceArn |-> arn]
BackupPage(results) == [Results |-> results]

BackupEntries ==
    {Entry(t, a) : t \in {"EC2", "EBS"}, a \in {ArnI1, ArnI2, I2, ArnTrailing, ArnI3}}

BackupPageSet ==
    {BackupPage(<<>>)}
    \cup {BackupPage(<<e>>) : e \in BackupEntries}
    \cup {BackupPage(<<Entry("EBS", ArnVolume), Entry("EC2", ArnI1), Entry("RDS", ArnI2)>>)}

StdBackup ==
    <<BackupPage(<<Entry("EC2", ArnI1), Entry("EBS", ArnVolume), Entry("EC2", ArnI3)>>)>>

NmCpuHigh      == <<"c", "p", "u", "-", "h", "i", "g", "h">>
NmDiskFull     == <<"d", "i", "s", "k", "-", "f", "u", "l", "l">>
NmDiskSpaceLow == <<"D", "i", "s", "k", "S", "p", "a", "c", "e", "L", "o", "w">>
NmCombo        == <<"M", "e", "m", "o", "r", "y", "H", "i", "g", "h", "-", "C", "P", "U", "-", "c", "o", "m", "b", "o">>
NmStatusCheck  == <<"S", "t", "a", "t", "u", "s", "C", "h", "e", "c", "k", "F", "a", "i", "l", "e", "d">>
NmFileSystem   == <<"F", "I", "L", "E", "S", "Y", "S", "T", "E", "M", "-", "r", "o">>
NmState        == <<"I", "n", "s", "t", "a", "n", "c", "e", "-", "S", "t", "a", "t", "e">>
NmNetwork      == <<"N", "e", "t", "w", "o", "r", "k", "I", "n">>

Dim(n, v) == [Name |-> n, Value |-> v]
OfInstance(id) == <<Dim("InstanceId", id)>>
OfGroup == <<Dim("AutoScalingGroupName", <<"a", "s", "g">>)>>

Alarm(name, dims, state, ts) ==
    [AlarmName |-> name, Dimensions |-> dims, StateValue |-> state,
     StateUpdatedTimestamp |-> ts]

AlarmPage(alarms) == [MetricAlarms |-> alarms]

\* Alarms that differ in state, transition time and instance.
WindowAlarms ==
    {Alarm(NmCpuHigh, d, s, t) :
        d \in {OfInstance(I1), OfInstance(I2), OfGroup},
        s \in {"OK", "ALARM"},
        t \in {LAST_7_DAYS - 1, LAST_7_DAYS, RunStart - 1}}

MixedAlarmPage ==
    AlarmPage(<<[AlarmName |-> NmDiskFull, StateValue |-> "INSUFFICIENT_DATA",
                 StateUpdatedTimestamp |-> RunStart],
                Alarm(NmNetwork, <<Dim("Device", <<"x">>), Dim("InstanceId", I2)>>,
                      "ALARM", RunStart),
                Alarm(NmCpuHigh, OfInstance(I3), "ALARM", RunStart)>>)

WindowPageSet ==
    {AlarmPage(<<>>), MixedAlarmPage} \cup {AlarmPage(<<a>>) : a \in WindowAlarms}

\* Alarms that differ in name and instance.
NamedAlarms ==
    {Alarm(n, OfInstance(id), "OK", RunStart - 1) :
        n \in {NmCpuHigh, NmDiskFull, NmDiskSpaceLow, NmCombo, NmStatusCheck,
               NmFileSystem, NmState, NmNetwork},
        id \in EnumerableIds}

NamesPageSet ==
    {AlarmPage(<<>>),
     AlarmPage(<<Alarm(NmDiskSpaceLow, OfGroup, "ALARM", RunStart),
                 Alarm(NmStatusCheck, OfInstance(I2), "ALARM", RunStart)>>)}
    \cup {AlarmPage(<<a>>) : a \in NamedAlarms}

StdAlarms ==
    <<AlarmPage(<<Alarm(NmCpuHigh, OfInstance(I1), "OK", RunStart - 1),
                  Alarm(NmDiskFull, OfInstance(I1), "ALARM", RunStart - 2)>>),
      AlarmPage(<<Alarm(NmDiskSpaceLow, OfGroup, "ALARM", RunStart),
                  Alarm(NmCombo, OfInstance(I3), "ALARM", RunStart)>>)>>

Finding(sev) == [severity |-> sev]
FindingsPage(fs) == [findings |-> fs]

FindingsPageSet ==
    {FindingsPage(<<>>),
     FindingsPage(<<Finding("CRITICAL")>>),
     FindingsPage(<<Finding("HIGH"), Finding("MEDIUM")>>),
     FindingsPage(<<Finding("LOW"), Finding("CRITICAL"), Finding("HIGH"),
                    Finding("CRITICAL")>>)}

StdFindings ==
    (I1 :> <<FindingsPage(<<Finding("CRITICAL"), Finding("CRITICAL")>>),
             FindingsPage(<<Finding("HIGH"), Finding("MEDIUM")>>)>>)
    @@ (I2 :> <<FindingsPage(<<>>)>>)

(***************************************************************************)
(* Specifications: the same run against different families of accounts.    *)
(***************************************************************************)
\* An account without instances, otherwise standard.
EmptyAccount ==
    /\ ec2Pages = EmptyEc2
    /\ backupPages = StdBackup
    /\ alarmPages = StdAlarms
    /\ findingPages = StdFindings

\* Every stage varies a little.
Init ==
    /\ Start
    /\ ec2Pages \in Listings({EmptyEc2Page, StdEc2[1], StdEc2[2]})
    /\ backupPages \in Listings({StdBackup[1]})
    /\ alarmPages \in Listings({StdAlarms[1]})
    /\ findingPages \in [EnumerableIds -> Listings({StdFindings[I1][2]})]

\* The instance listing varies.
InitInstances ==
    /\ Start
    /\ ec2Pages \in Listings(Ec2PageSet)
    /\ backupPages = StdBackup
    /\ alarmPages = StdAlarms
    /\ findingPages = StdFindings

\* The protected resources vary.
InitBackup ==
    /\ Start
    /\ \/ EmptyAccount
       \/ /\ ec2Pages = StdEc2
          /\ backupPages \in Listings(BackupPageSet)
          /\ alarmPages = StdAlarms
          /\ findingPages = StdFindings

\* The alarms' states, transition times and instances vary.
InitAlarms ==
    /\ Start
    /\ \/ EmptyAccount
       \/ /\ ec2Pages = StdEc2
          /\ backupPages = StdBackup
          /\ alarmPages \in Listings(WindowPageSet)
          /\ findingPages = StdFindings

\* The alarms' names vary.
InitAlarmNames ==
    /\ Start
    /\ \/ EmptyAccount
       \/ /\ ec2Pages = StdEc2
          /\ backupPages = StdBackup
          /\ alarmPages \in Listings(NamesPageSet)
          /\ findingPages = StdFindings

\* The findings vary.
InitFindings ==
    /\ Start
    /\ \/ EmptyAccount
       \/ /\ ec2Pages = StdEc2
          /\ backupPages = StdBackup
          /\ alarmPages = StdAlarms
          /\ findingPages \in [EnumerableIds -> Listings(FindingsPageSet)]

Spec == Init /\ [][Next]_vars
SpecInstances == InitInstances /\ [][Next]_vars
SpecBackup == InitBackup /\ [][Next]_vars
SpecAlarms == InitAlarms /\ [][Next]_vars
SpecAlarmNames == InitAlarmNames /\ [][Next]_vars
SpecFindings == InitFindings /\ [][Next]_vars

(***************************************************************************)
(* The account as listed, for stating the properties                       *)
(***************************************************************************)
RECURSIVE Flat(_, _)
Flat(ss, i) == IF i > Len(ss) THEN <<>> ELSE ss[i] \o Flat(ss, i + 1)

ReservationsListed ==
    Flat([p \in 1..Len(ec2Pages) |-> ec2Pages[p].Reservations], 1)

ListedInstances ==
    Flat([r \in 1..Len(ReservationsListed) |-> ReservationsListed[r].Instances], 1)

ListedIds == [k \in 1..Len(ListedInstances) |-> ListedInstances[k].InstanceId]

ListedEntries == Flat([p \in 1..Len(backupPages) |-> backupPages[p].Results], 1)

ListedAlarms == Flat([p \in 1..Len(alarmPages) |-> alarmPages[p].MetricAlarms], 1)

ListedFindings(id) ==
    Flat([p \in 1..Len(findingPages[id]) |-> findingPages[id][p].findings], 1)

Min(S) == CHOOSE x \in S : \A y \in S : x <= y
Max(S) == CHOOSE x \in S : \A y \in S : x >= y

FirstListing(id) == Min({k \in 1..Len(ListedIds) : ListedIds[k] = id})
LastListing(id) == Max({k \in 1..Len(ListedIds) : ListedIds[k] = id})

\* The alarms with an "InstanceId" dimension of this value.
AlarmsOf(id) ==
    {a \in Range(ListedAlarms) :
        /\ "Dimensions" \in DOMAIN a
        /\ \E d \in Range(a.Dimensions) : d.Name = "InstanceId" /\ d.Value = id}

\* Everything after the last "/" of a string.
AfterLastSlash(s) ==
    LET slashes == {k \in 1..Len(s) : s[k] = "/"}
    IN  IF slashes = {} THEN s ELSE SubSeq(s, Max(slashes) + 1, Len(s))

ProtectedAsListed ==
    {AfterLastSlash(e.ResourceArn) : e \in {x \in Range(ListedEntries) : x.ResourceType = "EC2"}}

SameLetter(a, b) ==
    a = b \/ \E k \in 1..Len(UpperCase) : {a, b} = {UpperCase[k], LowerCase[k]}

\* kw occurs in name, letter case aside.
OccursIn(kw, name) ==
    \E off \in 0..(Len(name) - Len(kw)) :
        \A j \in 1..Len(kw) : SameLetter(name[off + j], kw[j])

NamedLike(id, keywords) ==
    \E a \in AlarmsOf(id) : \E kw \in keywords : OccursIn(kw, a.AlarmName)

CountOf(fs, sevs) == Cardinality({k \in 1..Len(fs) : fs[k].severity \in sevs})

AllStagesComplete ==
    /\ fetched.identity = 1
    /\ fetched.ec2 = Len(ec2Pages)
    /\ fetched.backup = Len(backupPages)
    /\ fetched.alarms = Len(alarmPages)
    /\ \A id \in Range(ListedIds) :
           Get(fetched.findings, id, 0) = Len(findingPages[id])

Report == csv.rows
InReport(P(_)) == csv.written => \A i \in 1..Len(Report) : P(Report[i])

(***************************************************************************)
(* Properties                                                              *)
(***************************************************************************)
\* C1: when the instance listing yields no instance on any page, the run
\* never gets past the empty-instances check: it aborts there with the fatal
\* error, the backup, alarm and findings stages are never reached, and the
\* report file is never written.
C1_EmptyListingAborts ==
    ListedInstances = <<>> =>
        /\ ~csv.written
        /\ pc \in {"get_caller_identity", "describe_instances", "check_instances", "aborted"}
        /\ fetched.backup = 0 /\ fetched.alarms = 0 /\ DOMAIN fetched.findings = {}
        /\ (pc = "aborted" /\ fetched.ec2 = Len(ec2Pages)) => error = "RuntimeError"

C1_Witness ==
    /\ ListedInstances = <<>>
    /\ Len(ec2Pages) > 1
    /\ fetched.ec2 = Len(ec2Pages)
    /\ pc = "aborted" /\ error = "RuntimeError"
    /\ ~csv.written

\* C2: the file exists only when the run is done, without error, with every
\* page of every stage fetched, and then holds one row per enumerated
\* instance; a run that ended in an error has written no file; the write is
\* reached only after all stages have completed.
C2_FullReportOrNoFile ==
    /\ csv.written <=> pc = "done"
    /\ pc \in {"build_rows", "to_csv", "done"} => AllStagesComplete /\ error = "none"
    /\ csv.written => /\ Len(Report) = Cardinality(Range(ListedIds))
                      /\ Report = rows
                      /\ csv.header = Columns
    /\ error # "none" <=> pc = "aborted"
    /\ pc = "aborted" => ~csv.written

C2_Witness ==
    /\ pc = "aborted" /\ error = "ClientError"
    /\ fetched.alarms = Len(alarmPages)
    /\ \E id \in DOMAIN fetched.findings :
           fetched.findings[id] >= 1 /\ fetched.findings[id] < Len(findingPages[id])
    /\ ~csv.written

\* C3: the report has exactly one row per enumerated instance ID and no
\* other row, in the order in which the IDs were first listed.
C3_OneRowPerInstance ==
    csv.written =>
        /\ {Report[i].InstanceId : i \in 1..Len(Report)} = Range(ListedIds)
        /\ {Report[i].InstanceId : i \in 1..Len(Report)} = Range(instances.keys)
        /\ \A i, j \in 1..Len(Report) :
               i < j => FirstListing(Report[i].InstanceId) < FirstListing(Report[j].InstanceId)

C3_Witness ==
    /\ csv.written
    /\ Len(Report) = 2
    /\ Len(ListedIds) > 2
    /\ ListedIds[Len(ListedIds)] = Report[1].InstanceId
    /\ I3 \in DOMAIN alarm_map /\ I3 \in protected_instances
    /\ I3 \notin {Report[i].InstanceId : i \in 1..Len(Report)}

\* C4: MonitoringAlertLastWeek is "Yes" exactly for the instances that have
\* an alarm (by its InstanceId dimension) in state ALARM whose state was
\* updated at or after run start minus seven days.
C4Row(row) ==
    row.MonitoringAlertLastWeek = "Yes" <=>
        \E a \in AlarmsOf(row.InstanceId) :
            /\ a.StateValue = "ALARM"
            /\ a.StateUpdatedTimestamp >= RunStart - WindowDays

C4_AlertLastWeek == InReport(C4Row)

C4_Witness ==
    /\ csv.written
    /\ \E i, j \in 1..Len(Report) :
          /\ Report[i].MonitoringAlertLastWeek = "Yes"
          /\ \A a \in AlarmsOf(Report[i].InstanceId) :
                 a.StateUpdatedTimestamp = RunStart - WindowDays
          /\ Report[j].MonitoringAlertLastWeek = "No"
          /\ \E a \in AlarmsOf(Report[j].InstanceId) :
                 a.StateValue = "ALARM" /\ a.StateUpdatedTimestamp = RunStart - 8

\* C5: each row's CVE counts are the counts over the findings returned for
\* that instance's own query, all pages: all of them, the CRITICAL ones, the
\* HIGH ones; so CVE_All is the sum of the two and of the other severities.
C5Row(row) ==
    LET fs == ListedFindings(row.InstanceId)
    IN  /\ row.CVE_All = Len(fs)
        /\ row.CVE_Critical = CountOf(fs, {"CRITICAL"})
        /\ row.CVE_High = CountOf(fs, {"HIGH"})
        /\ row.CVE_All = row.CVE_Critical + row.CVE_High
                         + Cardinality({k \in 1..Len(fs) : fs[k].severity \notin {"CRITICAL", "HIGH"}})
        /\ fs = <<>> => row.CVE_All = 0 /\ row.CVE_Critical = 0 /\ row.CVE_High = 0

C5_Tallies == InReport(C5Row)

C5_Witness ==
    /\ csv.written
    /\ \E i, j \in 1..Len(Report) :
          /\ Len(findingPages[Report[i].InstanceId]) > 1
          /\ Report[i].CVE_Critical = 2 /\ Report[i].CVE_High = 2 /\ Report[i].CVE_All = 6
          /\ ListedFindings(Report[j].InstanceId) = <<>>
          /\ Report[j].CVE_All = 0

\* C6: BackupEnabled is "Yes" exactly for the instances whose ID is the text
\* after the last "/" of the identifier of some protected-resource entry of
\* type "EC2", and "No" for all others.
C6Row(row) ==
    /\ row.BackupEnabled \in {"Yes", "No"}
    /\ row.BackupEnabled = "Yes" <=> row.InstanceId \in ProtectedAsListed

C6_BackupEnabled ==
    /\ InReport(C6Row)
    /\ pc \in {"describe_alarms", "list_findings", "build_rows", "to_csv", "done"}
           => protected_instances = ProtectedAsListed

C6_Witness ==
    /\ csv.written
    /\ \E i, j \in 1..Len(Report) :
          /\ Report[i].BackupEnabled = "Yes"
          /\ \E e \in Range(ListedEntries) :
                 e.ResourceArn = ArnI2 /\ Report[i].InstanceId = I2
          /\ Report[j].BackupEnabled = "No"
          /\ \E e \in Range(ListedEntries) :
                 /\ e.ResourceType # "EC2"
                 /\ AfterLastSlash(e.ResourceArn) = Report[j].InstanceId

\* C7: each category flag is "Yes" exactly when some alarm of the instance
\* has a name in which one of the category's keywords occurs, letter case
\* aside; the flags are independent and the alarm's state plays no part.
C7Row(row) ==
    /\ row.StateAlarm = "Yes" <=> NamedLike(row.InstanceId, {KwState, KwStatus})
    /\ row.CPUAlarm = "Yes" <=> NamedLike(row.InstanceId, {KwCpu})
    /\ row.MemoryAlarm = "Yes" <=> NamedLike(row.InstanceId, {KwMemory})
    /\ row.DiskAlarm = "Yes" <=> NamedLike(row.InstanceId, {KwDisk, KwFilesystem})

C7_CategoryFlags == InReport(C7Row)

C7_Witness ==
    /\ csv.written
    /\ \E i, j \in 1..Len(Report) :
          /\ \A a \in AlarmsOf(Report[i].InstanceId) : a.AlarmName = NmCombo
          /\ Report[i].MemoryAlarm = "Yes" /\ Report[i].CPUAlarm = "Yes"
          /\ Report[i].DiskAlarm = "No" /\ Report[i].StateAlarm = "No"
          /\ AlarmsOf(Report[j].InstanceId) # {}
          /\ \A a \in AlarmsOf(Report[j].InstanceId) :
                 a.AlarmName = NmDiskSpaceLow /\ a.StateValue = "OK"
          /\ Report[j].DiskAlarm = "Yes" /\ Report[j].CPUAlarm = "No"

\* C8: every row has all thirteen columns with "Yes"/"No" or a count in
\* them; an instance no listed alarm belongs to has "No" in the six
\* monitoring columns, an instance outside the protected set has
\* BackupEnabled "No", an instance without findings has three zero counts.
C8Row(row) ==
    /\ DOMAIN row = Range(Columns)
    /\ \A c \in {"BackupEnabled", "MonitoringEnabled", "StateAlarm", "CPUAlarm",
                 "MemoryAlarm", "DiskAlarm", "MonitoringAlertLastWeek"} :
           row[c] \in {"Yes", "No"}
    /\ \A c \in {"CVE_Critical", "CVE_High", "CVE_All"} : row[c] \in Nat
    /\ AlarmsOf(row.InstanceId) = {} =>
           \A c \in {"MonitoringEnabled", "StateAlarm", "CPUAlarm", "MemoryAlarm",
                     "DiskAlarm", "MonitoringAlertLastWeek"} : row[c] = "No"
    /\ row.InstanceId \notin ProtectedAsListed => row.BackupEnabled = "No"
    /\ ListedFindings(row.InstanceId) = <<>> =>
           row.CVE_Critical = 0 /\ row.CVE_High = 0 /\ row.CVE_All = 0

C8_Defaults == InReport(C8Row)

C8_Witness ==
    /\ csv.written
    /\ ListedAlarms # <<>>
    /\ \A a \in Range(ListedAlarms) :
           \A d \in Range(DimensionsOf(a)) : d.Name # "InstanceId"
    /\ \E i \in 1..Len(Report) :
          /\ Report[i].InstanceId \notin ProtectedAsListed
          /\ ListedFindings(Report[i].InstanceId) = <<>>
          /\ Report[i].MonitoringEnabled = "No"
          /\ Report[i].MonitoringAlertLastWeek = "No"
          /\ Report[i].BackupEnabled = "No"
          /\ Report[i].CVE_All = 0

\* C9: InstanceName is "N/A" when the instance, as last listed, has no tag
\* whose key is exactly "Name", and otherwise the value of the first such tag.
C9Row(row) ==
    LET d == ListedInstances[LastListing(row.InstanceId)]
        tags == IF "Tags" \in DOMAIN d THEN d.Tags ELSE <<>>
        named == {k \in 1..Len(tags) : tags[k].Key = "Name"}
    IN  IF named = {} THEN row.InstanceName = "N/A"
        ELSE row.InstanceName = tags[Min(named)].Value

C9_InstanceName == InReport(C9Row)

C9_Witness ==
    /\ csv.written
    /\ \E i, j \in 1..Len(Report) :
          /\ Report[i].InstanceName = "db-1"
          /\ Report[j].InstanceName = "N/A"
          /\ \E k \in 1..Len(ListedInstances) :
                 /\ ListedInstances[k].InstanceId = Report[j].InstanceId
                 /\ "Tags" \in DOMAIN ListedInstances[k]
                 /\ ListedInstances[k].Tags = <<Tag("name", "lower")>>

\* C10: a row with MonitoringAlertLastWeek "Yes" has MonitoringEnabled "Yes".
C10Row(row) ==
    row.MonitoringAlertLastWeek = "Yes" => row.MonitoringEnabled = "Yes"

C10_AlertImpliesEnabled ==
    /\ InReport(C10Row)
    /\ DOMAIN alarm_triggered_last_week \subseteq DOMAIN alarm_map

C10_Witness ==
    /\ csv.written
    /\ \E i \in 1..Len(Report) :
          /\ Report[i].MonitoringAlertLastWeek = "Yes"
          /\ Report[i].MonitoringEnabled = "Yes"
          /\ \A c \in {"StateAlarm", "CPUAlarm", "MemoryAlarm", "DiskAlarm"} :
                 Report[i][c] = "No"

====
